---- MODULE Spec2Model ----
(***************************************************************************)
(* Model of the audio cache of the universal TTS system                    *)
(* (src/dist/utils/audio_cache.py, class AudioCache).                      *)
(*                                                                         *)
(* Strings are sequences of one-character strings.  Sizes are counted in   *)
(* units of one megabyte and times in units of one day, so that the test   *)
(* fixture AudioCache(max_size_mb=10, max_age_days=1) gives                *)
(* max_size_bytes = 10 and max_age_seconds = 1.                            *)
(***************************************************************************)
EXTENDS Integers, Sequences, FiniteSets, TLC

VARIABLES
    files,          \* the payload files of cache_dir: path -> file
    cache_index,    \* self.cache_index, an insertion-ordered dict
    index_file,     \* cache_dir/cache_index.json
    cache_dir,      \* whether the directory cache_dir exists
    cleanup_task,   \* self._cleanup_task
    tasks,          \* the cleanup tasks of the event loop that have not ended
    running,        \* whether the process that holds the AudioCache is alive
    now,            \* time.time()
    io_mode,        \* the condition of the disk the cache directory is on
    last,           \* the call made by the latest step and how it ended
    scenario,       \* the requests cached so far, while every call was one more 3 MB insert
    in1, in2,       \* two argument tuples of _generate_cache_key
    key1, key2,     \* the keys _generate_cache_key returned for them
    plugins,        \* the modules of engines/plugins, in the order glob yields them
    factory,        \* the TTSEngineFactory of dist/engines/tts_factory.py
    type_factory,   \* the TTSEngineFactory of engines/factory.py
    instances,      \* how many engine objects have been constructed
    pyttsx3,        \* a PyTTSx3Engine
    gtts,           \* a GTTSEngine
    elevenlabs,     \* an ElevenLabsEngine
    batch,          \* a run of main() of dist/main.py over its files
    chain           \* a call of one of the two effect chains

cacheVars == <<files, cache_index, index_file, cache_dir, cleanup_task, tasks, running, now,
               io_mode, last, scenario>>
keyVars == <<in1, in2, key1, key2>>
factoryVars == <<plugins, factory, type_factory, instances>>
engineVars == <<pyttsx3, gtts, elevenlabs>>
runVars == <<batch, chain>>

vars == <<cacheVars, keyVars, factoryVars, engineVars, runVars>>

(* What a call of the cache leaves alone besides the cache itself. *)
idleVars == <<running, keyVars, factoryVars, engineVars, runVars>>

----------------------------------------------------------------------------
(* Bounds *)

MaxStrLen == 1      \* longest text, engine name and voice id given to _generate_cache_key
MaxTime == 2        \* the clock runs from 0 to MaxTime days
MaxTasks == 1       \* most cancelled cleanup tasks that have not yet ended
MaxInstances == 2   \* most engine objects the factories construct
MaxCalls == 1       \* most speak() calls of one engine in flight at a time
MaxQueue == 2       \* most texts in the _text_queue of a PyTTSx3Engine
MaxSettings == 2    \* most items of the dict given to configure()
MaxFiles == 2       \* most files of one run
MaxEffects == 2     \* most keys of an effect map
MaxSpeaks == 2      \* most texts given to speak() of one PyTTSx3Engine

(* The fixture of src/dist/tests/test_audio_cache.py *)
max_size_mb == 10
max_age_days == 1

max_size_bytes == max_size_mb
max_age_seconds == max_age_days

----------------------------------------------------------------------------
(* Strings, settings maps and json.dumps(settings, sort_keys=True) *)

Alphabet == {"a", ":"}

RECURSIVE StringsUpTo(_)
StringsUpTo(n) ==
    IF n = 0 THEN {<<>>}
    ELSE LET shorter == StringsUpTo(n - 1)
         IN  shorter \cup {Append(s, c) : s \in {t \in shorter : Len(t) = n - 1}, c \in Alphabet}

Strings == StringsUpTo(MaxStrLen)

SettingNames == {"pitch", "rate"}
SettingValues == {"1", "2"}

(* A settings dict in insertion order: a sequence of <<name, value>> with   *)
(* distinct names.                                                         *)
SettingsDicts ==
    {<<>>}
    \cup {<<<<k, v>>>> : k \in SettingNames, v \in SettingValues}
    \cup {s \in {<<<<k1, v1>>, <<k2, v2>>>> :
                    k1 \in SettingNames, k2 \in SettingNames,
                    v1 \in SettingValues, v2 \in SettingValues} : s[1][1] # s[2][1]}

(* The dict as a map: what Python's == on dicts compares. *)
AsMap(s) == {s[i] : i \in 1..Len(s)}

(* The order of str on the setting names: "pitch" < "rate". *)
NameRank(k) == IF k = "pitch" THEN 1 ELSE 2

RECURSIVE InsertSorted(_, _)
InsertSorted(sorted, item) ==
    IF sorted = <<>> THEN <<item>>
    ELSE IF NameRank(item[1]) < NameRank(Head(sorted)[1])
         THEN <<item>> \o sorted
         ELSE <<Head(sorted)>> \o InsertSorted(Tail(sorted), item)

RECURSIVE SortByKey(_)
SortByKey(s) ==
    IF s = <<>> THEN <<>>
    ELSE InsertSorted(SortByKey(SubSeq(s, 1, Len(s) - 1)), s[Len(s)])

(* The items of a dict in the given order as JSON text:                   *)
(* {"pitch": 1, "rate": 2}                                                 *)
RECURSIVE JsonItems(_)
JsonItems(s) ==
    IF s = <<>> THEN <<>>
    ELSE <<"\"", s[1][1], "\"", ":", " ", s[1][2]>>
         \o (IF Len(s) > 1 THEN <<",", " ">> ELSE <<>>)
         \o JsonItems(Tail(s))

json_dumps(s) == <<"{">> \o JsonItems(s) \o <<"}">>

json_dumps_sort_keys(s) == json_dumps(SortByKey(s))

(* hashlib.md5(...).hexdigest(), taken as collision-free: the digest       *)
(* determines the text it was made from.                                   *)
md5_hexdigest(key_data) == <<"md5">> \o key_data

_generate_cache_key_unsorted(text, engine, voice_id, settings) ==
    md5_hexdigest(text \o <<":">> \o engine \o <<":">> \o voice_id \o <<":">>
                  \o json_dumps(settings))

_generate_cache_key(text, engine, voice_id, settings) ==
    md5_hexdigest(text \o <<":">> \o engine \o <<":">> \o voice_id \o <<":">>
                  \o json_dumps_sort_keys(settings))

KeyOf(req) == _generate_cache_key(req.text, req.engine, req.voice_id, req.settings)

KeyInputs == [text : Strings, engine : Strings, voice_id : Strings, settings : SettingsDicts]

----------------------------------------------------------------------------
(* The requests and the audio the cache is driven with *)

Req(t, e, v, s) == [text |-> t, engine |-> e, voice_id |-> v, settings |-> s]

Requests ==
    { Req(<<"a">>, <<"g">>, <<"v">>, <<>>),
      Req(<<"a">>, <<"g">>, <<"v">>, <<<<"rate", "1">>>>) }

(* The five requests of the size scenario. *)
ScenarioRequests ==
    Requests \cup { Req(<<"b">>, <<"g">>, <<"v">>, <<>>),
                    Req(<<"a">>, <<"p">>, <<"v">>, <<>>),
                    Req(<<"a">>, <<"g">>, <<"w">>, <<>>) }

Bytes == {"x", "y"}

Fill(n, b) == [i \in 1..n |-> b]

AudioData ==
    {<<>>, Fill(3, "x"), Fill(4, "y"), Fill(max_size_bytes + 1, "x")}

ThreeMB == Fill(3, "x")

----------------------------------------------------------------------------
(* The cache directory *)

(* body(value), with value computed once *)
With(value, body(_)) == CHOOSE r \in {body(x) : x \in {value}} : TRUE

NoFile == [exists |-> FALSE, bytes |-> <<>>, complete |-> FALSE]
WholeFile(data) == [exists |-> TRUE, bytes |-> data, complete |-> TRUE]
PartialFile(data) == [exists |-> TRUE, bytes |-> data, complete |-> FALSE]

NoIndexFile == [exists |-> FALSE, corrupt |-> FALSE, content |-> <<>>]

None == [some |-> FALSE, val |-> <<>>]
Some(v) == [some |-> TRUE, val |-> v]

_get_cache_path(cache_key) == cache_key \o <<".mp3">>

Paths == {_get_cache_path(KeyOf(r)) : r \in ScenarioRequests}

(* The disk: "ok"; "full", where a file opened for writing is truncated    *)
(* and the write then fails; "denied", where opening a file and removing   *)
(* one fail.                                                               *)
IoModes == {"ok", "full", "denied"}

HasKey(idx, k) == \E i \in 1..Len(idx) : idx[i].key = k

EntryOf(idx, k) == idx[CHOOSE i \in 1..Len(idx) : idx[i].key = k]

(* del d[k] *)
DictDel(idx, k) == SelectSeq(idx, LAMBDA e : e.key # k)

(* d[k] = entry: an existing key keeps its place, a new one goes last. *)
DictSet(idx, entry) ==
    IF HasKey(idx, entry.key)
    THEN [i \in 1..Len(idx) |-> IF idx[i].key = entry.key THEN entry ELSE idx[i]]
    ELSE Append(idx, entry)

(* json.dump(self.cache_index, f): one member per key, in dict order, each  *)
(* an object of the five fields of the entry.                              *)
json_dump_entry(entry) ==
    <<entry.key, << <<"created_at", entry.created_at>>,
                    <<"last_accessed", entry.last_accessed>>,
                    <<"size", entry.size>>,
                    <<"engine", entry.engine>>,
                    <<"voice_id", entry.voice_id>> >> >>

json_dump_index(idx) == [i \in 1..Len(idx) |-> json_dump_entry(idx[i])]

(* json.load(f): the value of a member of an object, the entry of a key,   *)
(* and the dict of the members in the order of the text.                   *)
MemberValue(object, name) ==
    object[CHOOSE j \in 1..Len(object) : object[j][1] = name][2]

json_load_entry(member) ==
    [key |-> member[1],
     created_at |-> MemberValue(member[2], "created_at"),
     last_accessed |-> MemberValue(member[2], "last_accessed"),
     size |-> MemberValue(member[2], "size"),
     engine |-> MemberValue(member[2], "engine"),
     voice_id |-> MemberValue(member[2], "voice_id")]

RECURSIVE LoadMembers(_, _)
LoadMembers(members, loaded) ==
    IF members = <<>> THEN loaded
    ELSE LoadMembers(Tail(members), DictSet(loaded, json_load_entry(Head(members))))

json_load_index(text) == LoadMembers(text, <<>>)

(* A cache_index.json that was opened for writing and not written to its   *)
(* end: no JSON document.                                                  *)
TruncatedIndexFile == [exists |-> TRUE, corrupt |-> TRUE, content |-> <<>>]

(* The index a cache_index.json holds, for a reader that can parse it. *)
IndexIn(file) == IF file.exists /\ ~file.corrupt THEN json_load_index(file.content) ELSE <<>>

_load_index(w, mode) ==
    IF w.index_file.exists
    THEN IF mode = "denied" \/ w.index_file.corrupt
         THEN [w EXCEPT !.cache_index = <<>>]
         ELSE [w EXCEPT !.cache_index = json_load_index(w.index_file.content)]
    ELSE w

(* AudioCache(cache_dir) on a directory that may hold an earlier cache *)
__init__(w, mode) ==
    _load_index([w EXCEPT !.cache_dir = TRUE, !.cache_index = <<>>], mode)

_save_index(w, mode) ==
    CASE mode = "ok" ->
            [w EXCEPT !.index_file = [exists |-> TRUE, corrupt |-> FALSE,
                                      content |-> json_dump_index(w.cache_index)]]
      [] mode = "full" -> [w EXCEPT !.index_file = TruncatedIndexFile]
      [] OTHER -> w

StatSize(w, k) ==
    IF w.files[_get_cache_path(k)].exists THEN Len(w.files[_get_cache_path(k)].bytes) ELSE 0

RECURSIVE SumSizes(_, _)
SumSizes(w, idx) ==
    IF idx = <<>> THEN 0 ELSE StatSize(w, Head(idx).key) + SumSizes(w, Tail(idx))

_get_cache_size(w) == SumSizes(w, w.cache_index)

(* remove_from_cache without its _save_index() *)
remove_from_cache_no_save(w, cache_key, mode) ==
    IF HasKey(w.cache_index, cache_key)
    THEN [w EXCEPT !.files[_get_cache_path(cache_key)] =
                       IF @.exists /\ mode # "denied" THEN NoFile ELSE @,
                   !.cache_index = DictDel(@, cache_key)]
    ELSE w

(* remove_from_cache without its os.remove *)
remove_from_cache_keeps_payload(w, cache_key, mode) ==
    IF HasKey(w.cache_index, cache_key)
    THEN _save_index([w EXCEPT !.cache_index = DictDel(@, cache_key)], mode)
    ELSE w

remove_from_cache(w, cache_key, mode) ==
    IF HasKey(w.cache_index, cache_key)
    THEN _save_index([w EXCEPT
                         !.files[_get_cache_path(cache_key)] =
                             IF @.exists /\ mode # "denied" THEN NoFile ELSE @,
                         !.cache_index = DictDel(@, cache_key)],
                     mode)
    ELSE w

(* max(keys, key=size): the first key, in dict order, of the largest size *)
RECURSIVE FirstLargest(_, _, _)
FirstLargest(w, idx, best) ==
    IF idx = <<>> THEN best
    ELSE FirstLargest(w, Tail(idx),
                      IF StatSize(w, Head(idx).key) > StatSize(w, best)
                      THEN Head(idx).key ELSE best)

(* A cache that evicts its oldest entry first. *)
OldestOf(w) == Head(w.cache_index).key

LargestOf(w) == FirstLargest(w, Tail(w.cache_index), Head(w.cache_index).key)

(* The result of a call: the directory after it, what it returned, the     *)
(* exception it raised and the keys it evicted.                            *)
Outcome(w, result, raised, evicted) ==
    [w |-> w, result |-> result, raised |-> raised, evicted |-> evicted]

RECURSIVE RemoveLargestLoop(_, _, _, _)
RemoveLargestLoop(w, target_size, mode, evicted) ==
    IF _get_cache_size(w) > target_size
    THEN IF w.cache_index = <<>>
         THEN Outcome(w, None, "ValueError", evicted)
         ELSE With(LargestOf(w), LAMBDA largest_key :
                  RemoveLargestLoop(remove_from_cache(w, largest_key, mode), target_size, mode,
                                    Append(evicted, largest_key)))
    ELSE Outcome(w, None, "none", evicted)

(* A loop that also ends when nothing is left to evict. *)
RECURSIVE RemoveLargestLoopStopEmpty(_, _, _, _)
RemoveLargestLoopStopEmpty(w, target_size, mode, evicted) ==
    IF _get_cache_size(w) > target_size /\ w.cache_index # <<>>
    THEN With(LargestOf(w), LAMBDA largest_key :
             RemoveLargestLoopStopEmpty(remove_from_cache(w, largest_key, mode), target_size,
                                        mode, Append(evicted, largest_key)))
    ELSE Outcome(w, None, "none", evicted)

_remove_largest_entries_stop_empty(w, target_size, mode) ==
    RemoveLargestLoopStopEmpty(w, target_size, mode, <<>>)

_remove_largest_entries(w, target_size, mode) ==
    RemoveLargestLoop(w, target_size, mode, <<>>)

RECURSIVE RemoveAll(_, _, _)
RemoveAll(w, keys, mode) ==
    IF keys = <<>> THEN w
    ELSE RemoveAll(remove_from_cache(w, Head(keys), mode), Tail(keys), mode)

KeysOf(idx) == [i \in 1..Len(idx) |-> idx[i].key]

Expired(entry, t) == t - entry.created_at > max_age_seconds

_remove_old_entries(w, t, mode) ==
    RemoveAll(w, KeysOf(SelectSeq(w.cache_index, LAMBDA e : Expired(e, t))), mode)

(* with open(cache_path, 'wb') as f: f.write(audio_data), where on a full  *)
(* disk `written` bytes reach the file before the write fails.             *)
WritePayload(w, path, audio_data, mode, written) ==
    CASE mode = "denied" -> [w |-> w, failed |-> TRUE]
      [] mode = "full" /\ Len(audio_data) > 0 ->
            [w |-> [w EXCEPT !.files[path] = PartialFile(SubSeq(audio_data, 1, written))],
             failed |-> TRUE]
      [] OTHER -> [w |-> [w EXCEPT !.files[path] = WholeFile(audio_data)], failed |-> FALSE]

(* An entry whose created_at is left at the epoch. *)
NewEntryEpoch(cache_key, req, audio_data, t) ==
    [key |-> cache_key, created_at |-> 0, last_accessed |-> t, size |-> Len(audio_data),
     engine |-> req.engine, voice_id |-> req.voice_id]

NewEntry(cache_key, req, audio_data, t) ==
    [key |-> cache_key, created_at |-> t, last_accessed |-> t, size |-> Len(audio_data),
     engine |-> req.engine, voice_id |-> req.voice_id]

cache_audio(w, req, audio_data, t, mode, written) ==
    LET cache_key == KeyOf(req)
        cache_path == _get_cache_path(cache_key)
        current_size == _get_cache_size(w)
        MakeSpace ==
            IF current_size + Len(audio_data) > max_size_bytes
            THEN _remove_largest_entries(w, max_size_bytes - Len(audio_data), mode)
            ELSE Outcome(w, None, "none", <<>>)
        UpdateIndex(space, saved) ==
            IF saved.failed THEN Outcome(saved.w, Some(cache_key), "none", space.evicted)
            ELSE Outcome(_save_index([saved.w EXCEPT !.cache_index =
                                         DictSet(@, NewEntry(cache_key, req, audio_data, t))],
                                     mode),
                         Some(cache_key), "none", space.evicted)
        SaveAudio(space) ==
            IF space.raised # "none" THEN space
            ELSE With(WritePayload(space.w, cache_path, audio_data, mode, written),
                      LAMBDA saved : UpdateIndex(space, saved))
    IN  With(MakeSpace, LAMBDA space : SaveAudio(space))

(* The hit of get_cached_audio: bump last_accessed, save, read the file. *)
Hit(w, cache_key, t, mode) ==
    Outcome(_save_index([w EXCEPT !.cache_index =
                            DictSet(@, [EntryOf(@, cache_key) EXCEPT !.last_accessed = t])],
                        mode),
            IF mode = "denied" THEN None ELSE Some(w.files[_get_cache_path(cache_key)].bytes),
            "none", <<>>)

(* get_cached_audio whose missing-file branch does not save the index *)
get_cached_audio_no_save(w, req, t, mode) ==
    LET cache_key == KeyOf(req)
    IN  IF ~HasKey(w.cache_index, cache_key) THEN Outcome(w, None, "none", <<>>)
        ELSE IF ~w.files[_get_cache_path(cache_key)].exists
        THEN Outcome([w EXCEPT !.cache_index = DictDel(@, cache_key)], None, "none", <<>>)
        ELSE IF Expired(EntryOf(w.cache_index, cache_key), t)
        THEN Outcome(remove_from_cache(w, cache_key, mode), None, "none", <<>>)
        ELSE Hit(w, cache_key, t, mode)

(* get_cached_audio whose expired branch removes the payload alone *)
get_cached_audio_keeps_entry(w, req, t, mode) ==
    LET cache_key == KeyOf(req)
    IN  IF ~HasKey(w.cache_index, cache_key) THEN Outcome(w, None, "none", <<>>)
        ELSE IF ~w.files[_get_cache_path(cache_key)].exists
        THEN Outcome(_save_index([w EXCEPT !.cache_index = DictDel(@, cache_key)], mode),
                     None, "none", <<>>)
        ELSE IF Expired(EntryOf(w.cache_index, cache_key), t)
        THEN Outcome([w EXCEPT !.files[_get_cache_path(cache_key)] = NoFile],
                     None, "none", <<>>)
        ELSE Hit(w, cache_key, t, mode)

get_cached_audio(w, req, t, mode) ==
    LET cache_key == KeyOf(req)
    IN  IF ~HasKey(w.cache_index, cache_key) THEN Outcome(w, None, "none", <<>>)
        ELSE IF ~w.files[_get_cache_path(cache_key)].exists
        THEN Outcome(_save_index([w EXCEPT !.cache_index = DictDel(@, cache_key)], mode),
                     None, "none", <<>>)
        ELSE IF Expired(EntryOf(w.cache_index, cache_key), t)
        THEN Outcome(remove_from_cache(w, cache_key, mode), None, "none", <<>>)
        ELSE Hit(w, cache_key, t, mode)

(* clear_cache that stops after the first key *)
clear_cache_first(w, mode) ==
    IF w.cache_index = <<>> THEN w ELSE remove_from_cache(w, Head(w.cache_index).key, mode)

clear_cache(w, mode) == RemoveAll(w, KeysOf(w.cache_index), mode)

RECURSIVE MinCreated(_, _)
MinCreated(idx, default) ==
    IF idx = <<>> THEN default
    ELSE LET rest == MinCreated(Tail(idx), default)
         IN  IF Tail(idx) = <<>> \/ Head(idx).created_at < rest
             THEN Head(idx).created_at ELSE rest

NoStats ==
    [total_size_bytes |-> 0, entry_count |-> 0, oldest_entry_age_seconds |-> 0,
     max_size_bytes |-> 0, max_age_seconds |-> 0]

get_cache_stats(w, t) ==
    [total_size_bytes |-> _get_cache_size(w),
     entry_count |-> Len(w.cache_index),
     oldest_entry_age_seconds |-> t - MinCreated(w.cache_index, t),
     max_size_bytes |-> max_size_bytes,
     max_age_seconds |-> max_age_seconds]

(* One pass of _cleanup_loop after its sleep; an exception of the pass is  *)
(* caught by the loop.                                                     *)
(* A pass that only removes the expired entries *)
CleanupPassOf_age_only(w, t, mode) == _remove_old_entries(w, t, mode)

CleanupPassOf(w, t, mode) ==
    With(_remove_old_entries(w, t, mode), LAMBDA aged :
         IF _get_cache_size(aged) > max_size_bytes
         THEN _remove_largest_entries(aged, max_size_bytes, mode).w
         ELSE aged)

----------------------------------------------------------------------------
(* The engine factories: TTSEngineFactory of dist/engines/tts_factory.py,  *)
(* which memoizes one instance per name, and TTSEngineFactory of           *)
(* engines/factory.py, which maps type names to classes.                   *)

EngineClasses == {"PyTTSx3Engine", "GTTSEngine", "ElevenLabsEngine"}

(* A class that does not implement TTSEngineInterface. *)
OtherClasses == {"dict"}

(* GTTSEngine() calls pygame.mixer.init(), which raises without an audio   *)
(* device; the other constructors only assign fields.                      *)
ConstructorCanRaise(class) == class = "GTTSEngine"

NoClass == "None"
NoEngine == [id |-> 0, class |-> "None"]

PluginStems == {"gtts_engine", "elevenlabs_engine"}

FactoryNames == {"pyttsx3", "gtts", "elevenlabs"} \cup PluginStems

ClassIn(stem) == IF stem = "gtts_engine" THEN "GTTSEngine" ELSE "ElevenLabsEngine"
NameIn(stem) == IF stem = "gtts_engine" THEN "gtts" ELSE "elevenlabs"

(* What importing a module of the plugins directory gives: an exception,   *)
(* a module without ENGINE_CLASS, or a module with ENGINE_CLASS and with   *)
(* or without ENGINE_NAME.                                                 *)
Module(stem, import, class, name) ==
    [stem |-> stem, import |-> import, ENGINE_CLASS |-> class, ENGINE_NAME |-> name]

PluginModules ==
    UNION {{Module(stem, "raises", NoClass, "None"),
            Module(stem, "ok", NoClass, "None"),
            Module(stem, "ok", ClassIn(stem), "None"),
            Module(stem, "ok", ClassIn(stem), NameIn(stem))} : stem \in PluginStems}

(* plugins_dir.glob("*.py") without __init__.py: no two files of one name. *)
PluginListings ==
    {<<>>} \cup {<<m>> : m \in PluginModules}
           \cup {listing \in {<<m1, m2>> : m1 \in PluginModules, m2 \in PluginModules} :
                     listing[1].stem # listing[2].stem}

NoClasses == [name \in FactoryNames |-> NoClass]
NoEngines == [name \in FactoryNames |-> NoEngine]

Loads(module) == module.import = "ok"
ExposesEngineClass(module) == Loads(module) /\ module.ENGINE_CLASS # NoClass
RegisteredNameOf(module) ==
    IF module.ENGINE_NAME # "None" THEN module.ENGINE_NAME ELSE module.stem

(* _load_plugins whose loop has no try of its own: the first module that   *)
(* fails ends the discovery.                                               *)
RECURSIVE _load_plugins_abort(_, _)
_load_plugins_abort(classes, listing) ==
    IF listing = <<>> \/ ~Loads(Head(listing)) THEN classes
    ELSE _load_plugins_abort(
             IF ExposesEngineClass(Head(listing))
             THEN [classes EXCEPT ![RegisteredNameOf(Head(listing))] = Head(listing).ENGINE_CLASS]
             ELSE classes,
             Tail(listing))

RECURSIVE _load_plugins(_, _)
_load_plugins(classes, listing) ==
    IF listing = <<>> THEN classes
    ELSE _load_plugins(
             IF ExposesEngineClass(Head(listing))
             THEN [classes EXCEPT ![RegisteredNameOf(Head(listing))] = Head(listing).ENGINE_CLASS]
             ELSE classes,
             Tail(listing))

NotConstructed == [constructed |-> FALSE, _engines |-> NoEngines, _engine_classes |-> NoClasses]

(* TTSEngineFactory() of dist/engines/tts_factory.py *)
TTSEngineFactory(listing) ==
    [constructed |-> TRUE,
     _engines |-> NoEngines,
     _engine_classes |-> _load_plugins([NoClasses EXCEPT !["pyttsx3"] = "PyTTSx3Engine"], listing)]

(* The result of a factory call: the factory after it, what it returned    *)
(* and the exception it raised.                                            *)
Made(f, result, raised) == [f |-> f, result |-> result, raised |-> raised]

get_engine(f, engine_name, id, constructor_raises) ==
    IF f._engines[engine_name] # NoEngine THEN Made(f, f._engines[engine_name], "none")
    ELSE IF f._engine_classes[engine_name] = NoClass THEN Made(f, NoEngine, "none")
    ELSE IF constructor_raises THEN Made(f, NoEngine, "none")
    ELSE With([id |-> id, class |-> f._engine_classes[engine_name]], LAMBDA engine :
              Made([f EXCEPT !._engines[engine_name] = engine], engine, "none"))

register_engine(f, engine_name, engine_class) ==
    IF engine_class \in EngineClasses
    THEN [f EXCEPT !._engine_classes[engine_name] = engine_class]
    ELSE f

(* unregister_engine that leaves the memoized instance *)
unregister_engine_keeps_instance(f, engine_name) ==
    [f EXCEPT !._engine_classes[engine_name] = NoClass]

unregister_engine(f, engine_name) ==
    IF f._engine_classes[engine_name] # NoClass
    THEN [f EXCEPT !._engine_classes[engine_name] = NoClass, !._engines[engine_name] = NoEngine]
    ELSE f

(* cleanup() of the factory: every memoized instance is dropped. *)
factory_cleanup(f) == [f EXCEPT !._engines = NoEngines]

(* engines/factory.py *)
TypeNames == {"edge-tts", "elevenlabs", "azure-tts", "custom"}

TypeClassOf(engine_type) ==
    CASE engine_type = "edge-tts" -> "EdgeTTSEngine"
      [] engine_type = "elevenlabs" -> "ElevenLabsEngine"
      [] engine_type = "azure-tts" -> "AzureTTSEngine"
      [] OTHER -> NoClass

TypeFactory == [_engines |-> [engine_type \in TypeNames |-> TypeClassOf(engine_type)]]

TypeFactory_get_engine(tf, engine_type, id) ==
    IF tf._engines[engine_type] = NoClass THEN Made(tf, NoEngine, "ValueError")
    ELSE Made(tf, [id |-> id, class |-> tf._engines[engine_type]], "none")

TypeFactory_register_engine(tf, engine_type, engine_class) ==
    [tf EXCEPT !._engines[engine_type] = engine_class]

----------------------------------------------------------------------------
(* The engines.  An engine call gives the engine after it and the          *)
(* exception it raised.                                                    *)

Did(e, raised) == [e |-> e, raised |-> raised]

Texts == {"hello", "world"}

(* PyTTSx3Engine(): _engine is None until initialize(); `calls` counts the *)
(* speak() coroutines that wait for the executor, `executor` the executor  *)
(* threads that are inside say or runAndWait for them, and `worker` tells  *)
(* whether the thread of _process_queue is inside say or runAndWait.       *)
(* `requested` counts the texts given to speak() and `synthesized` the     *)
(* calls of say on the underlying engine.                                  *)
PyTTSx3Engine ==
    [_engine |-> FALSE, _speaking |-> FALSE, _paused |-> FALSE, _stop_requested |-> FALSE,
     _text_queue |-> <<>>, initialized |-> FALSE, calls |-> 0, executor |-> 0,
     worker |-> "idle", requested |-> 0, synthesized |-> 0]

PyTTSx3Engine_initialize(e, init_raises) ==
    IF e.initialized THEN Did(e, "none")
    ELSE IF init_raises THEN Did(e, "TTSEngineError")
    ELSE Did([e EXCEPT !._engine = TRUE, !.initialized = TRUE], "none")

(* speak() up to its first await *)
PyTTSx3Engine_speak(e, text) ==
    IF ~e._engine THEN Did(e, "TTSEngineError")
    ELSE Did([e EXCEPT !._text_queue = Append(@, text), !._speaking = TRUE,
                       !._stop_requested = FALSE, !._paused = FALSE, !.calls = @ + 1,
                       !.executor = @ + 1, !.requested = @ + 1, !.synthesized = @ + 1],
             "none")

(* One turn of _process_queue that finds a text: it takes the text and     *)
(* calls say and runAndWait; without an engine the call raises, which the  *)
(* thread prints.                                                          *)
PyTTSx3Engine__process_queue(e) ==
    IF e._engine
    THEN Did([e EXCEPT !._text_queue = Tail(@), !.worker = "driving", !.synthesized = @ + 1],
             "none")
    ELSE Did([e EXCEPT !._text_queue = Tail(@)], "none")

PyTTSx3Engine_pause(e) ==
    IF ~e._engine THEN Did(e, "TTSEngineError")
    ELSE Did([e EXCEPT !._paused = TRUE], "none")

(* resume() up to the first await of the speak() it calls *)
PyTTSx3Engine_resume(e) ==
    IF ~e._engine THEN Did(e, "TTSEngineError")
    ELSE IF e._text_queue # <<>>
    THEN PyTTSx3Engine_speak([e EXCEPT !._paused = FALSE, !._text_queue = Tail(@)],
                             Head(e._text_queue))
    ELSE Did([e EXCEPT !._paused = FALSE], "none")

PyTTSx3Engine_stop(e) ==
    IF ~e._engine THEN Did(e, "TTSEngineError")
    ELSE Did([e EXCEPT !._stop_requested = TRUE, !._speaking = FALSE, !._paused = FALSE,
                       !._text_queue = <<>>],
             "none")

PyTTSx3Engine_cleanup(e) ==
    With(PyTTSx3Engine_stop(e), LAMBDA stopped :
         IF stopped.raised # "none" THEN Did(stopped.e, "TTSEngineError")
         ELSE Did([stopped.e EXCEPT !._engine = FALSE], "none"))

(* GTTSEngine(): `music` is pygame.mixer.music, `calls` counts the speak()  *)
(* coroutines that wait for the playback.                                  *)
GTTSEngine == [_speaking |-> FALSE, _paused |-> FALSE, music |-> "idle", calls |-> 0]

(* speak() up to its first await, or to its except clause when gTTS or the *)
(* mixer raises.                                                           *)
GTTSEngine_speak(g, text, raises) ==
    IF raises THEN Did([g EXCEPT !._speaking = FALSE, !._paused = FALSE], "TTSEngineError")
    ELSE Did([g EXCEPT !._speaking = TRUE, !._paused = FALSE, !.music = "playing",
                       !.calls = @ + 1],
             "none")

(* speak() after its loop, when get_busy() was false: it unloads the music *)
(* and returns, or goes to its except clause when that raises.             *)
GTTSEngine_speak_done(g, raises) ==
    Did([g EXCEPT !.music = "idle", !._speaking = FALSE, !.calls = @ - 1],
        IF raises THEN "TTSEngineError" ELSE "none")

GTTSEngine_pause(g) ==
    IF g._speaking /\ ~g._paused
    THEN Did([g EXCEPT !.music = IF @ = "playing" THEN "paused" ELSE @, !._paused = TRUE],
             "none")
    ELSE Did(g, "none")

GTTSEngine_resume(g) ==
    IF g._speaking /\ g._paused
    THEN Did([g EXCEPT !.music = IF @ = "paused" THEN "playing" ELSE @, !._paused = FALSE],
             "none")
    ELSE Did(g, "none")

GTTSEngine_stop(g) ==
    IF g._speaking
    THEN Did([g EXCEPT !.music = "idle", !._speaking = FALSE, !._paused = FALSE], "none")
    ELSE Did(g, "none")

(* ElevenLabsEngine().  Of _settings the model keeps "stability" and       *)
(* "style", in tenths (0.5 is 5), and "use_speaker_boost"; _voice_cache is *)
(* kept as whether it holds the voices.  No method of the engine awaits    *)
(* between its first and its last assignment, so each call is one step.    *)
ElevenLabsEngine ==
    [_speaking |-> FALSE, _paused |-> FALSE,
     _settings |-> [stability |-> 5, style |-> 0, use_speaker_boost |-> "True"],
     _voice_cache |-> FALSE]

(* The (key, value) pairs given to configure(): 1.5 and 0.2 for the two    *)
(* settings bounded by 0 and 1, a bool and a str for use_speaker_boost,    *)
(* and a key that _settings does not have.                                 *)
SettingItems ==
    ({"stability", "style"} \X {2, 15})
        \cup ({"use_speaker_boost"} \X {"False", "yes"})
        \cup {<<"volume", 5>>}

(* The dicts given to configure(), each in every insertion order. *)
ConfigureSettings ==
    UNION {{s \in [1..n -> SettingItems] : \A i, j \in 1..n : i # j => s[i][1] # s[j][1]}
           : n \in 0..MaxSettings}

Invalid(key, value) ==
    \/ key \in {"stability", "style"} /\ ~(0 <= value /\ value <= 10)
    \/ key = "use_speaker_boost" /\ value \notin {"True", "False"}

(* The loop of configure() over settings.items() *)
RECURSIVE ConfigureItems(_, _)
ConfigureItems(e, items) ==
    IF items = <<>> THEN Did(e, "none")
    ELSE With(Head(items), LAMBDA item :
         IF item[1] \notin DOMAIN e._settings THEN ConfigureItems(e, Tail(items))
         ELSE IF Invalid(item[1], item[2]) THEN Did(e, "TTSEngineError")
         ELSE ConfigureItems([e EXCEPT !._settings[item[1]] = item[2]], Tail(items)))

ElevenLabsEngine_configure(e, settings) == ConfigureItems(e, settings)

ElevenLabsEngine_initialize(e, raises) ==
    IF raises THEN Did(e, "TTSEngineError")
    ELSE Did([e EXCEPT !._voice_cache = TRUE], "none")

(* speak(): generate() returns the audio or raises *)
ElevenLabsEngine_speak(e, text, raises) ==
    Did([e EXCEPT !._speaking = FALSE, !._paused = FALSE],
        IF raises THEN "TTSEngineError" ELSE "none")

ElevenLabsEngine_pause(e) ==
    IF e._speaking /\ ~e._paused THEN Did([e EXCEPT !._paused = TRUE], "none")
    ELSE Did(e, "none")

ElevenLabsEngine_resume(e) ==
    IF e._speaking /\ e._paused THEN Did([e EXCEPT !._paused = FALSE], "none")
    ELSE Did(e, "none")

ElevenLabsEngine_stop(e) == Did([e EXCEPT !._speaking = FALSE, !._paused = FALSE], "none")

ElevenLabsEngine_cleanup(e) ==
    Did([ElevenLabsEngine_stop(e).e EXCEPT !._voice_cache = FALSE], "none")

(* A run over several files.  A file is given by what happens when it is   *)
(* processed: "good" is converted; "missing" does not exist; "unsupported" *)
(* has an extension detect_file_type does not know; "no_reader" is a .txt, *)
(* which is detected but has no reader; "corrupt_pdf" makes PDFReader      *)
(* raise; "engine_error" makes the engine raise TTSEngineError.            *)
FileKinds == {"good", "missing", "unsupported", "no_reader", "corrupt_pdf", "engine_error"}

BatchFiles == UNION {[1..n -> FileKinds] : n \in 1..MaxFiles}

(* UniversalTTSSystem.process_file: what the call raises, "none" when it   *)
(* returns.  PDFReader.extract_text_chunks raises a plain Exception, which *)
(* process_file logs and raises again.                                     *)
process_file(file) ==
    CASE file = "good" -> "none"
      [] file = "missing" -> "ValidationError"
      [] file = "unsupported" -> "FileTypeError"
      [] file = "no_reader" -> "FileReaderError"
      [] file = "corrupt_pdf" -> "Exception"
      [] file = "engine_error" -> "TTSEngineError"

(* The exceptions of utils.exceptions that main.py imports *)
TTSBaseException == {"ValidationError", "FileTypeError", "FileReaderError", "TTSEngineError"}

Pending(run) == {i \in 1..Len(run.files) : run.reports[i] = "pending"}

StartRun(status, paths) ==
    [files |-> paths, reports |-> [i \in 1..Len(paths) |-> "pending"], status |-> status]

(* The end of a run whose files have all been reported *)
Finish(run) == IF Pending(run) = {} THEN [run EXCEPT !.status = "returned"] ELSE run

(* One turn of the loop of main(): the inner except takes a                *)
(* TTSBaseException and goes on; any other exception reaches the outer     *)
(* except, which prints "Fatal error" and calls sys.exit(1).               *)
main_loop(run, i) ==
    With(process_file(run.files[i]), LAMBDA raised :
         IF raised = "none" THEN Finish([run EXCEPT !.reports[i] = "done"])
         ELSE IF raised \in TTSBaseException THEN Finish([run EXCEPT !.reports[i] = "error"])
         ELSE [run EXCEPT !.reports[i] = "fatal", !.status = "exit(1)"])

(* process_file_async of run_parallel_conversion.py: "except Exception"    *)
(* around the whole conversion of one file.                                *)
process_file_async(run, i) ==
    With(process_file(run.files[i]), LAMBDA raised :
         IF raised = "none" THEN Finish([run EXCEPT !.reports[i] = "done"])
         ELSE Finish([run EXCEPT !.reports[i] = "error"]))

(* The effect chains.  An effect map is an insertion-ordered dict, kept as *)
(* its (key, value) items; a value is "params" for a value that is true in *)
(* a condition (True, a dict with parameters) and "empty" for one that is  *)
(* false there ({}, False, 0, None).  The stages are kept as the names     *)
(* added to the list of what has been applied to the audio.                *)
TimeStages ==
    <<"noise_reduction", "equalization", "compression", "reverb", "echo", "pitch_shift",
      "time_stretch", "stereo_width">>

SpectralStages ==
    <<"spectral_shaping", "harmonic_enhancement", "noise_gate", "spectral_compression",
      "phase_correction">>

Range(s) == {s[i] : i \in 1..Len(s)}

EffectMaps(stages) ==
    UNION {{e \in [1..n -> Range(stages) \X {"params", "empty"}] :
                \A i, j \in 1..n : i # j => e[i][1] # e[j][1]}
           : n \in 0..MaxEffects}

HasEffect(effects, key) == \E i \in 1..Len(effects) : effects[i][1] = key

(* effects.get(key) *)
EffectsGet(effects, key) ==
    IF HasEffect(effects, key)
    THEN effects[CHOOSE i \in 1..Len(effects) : effects[i][1] = key][2]
    ELSE "None"

Truthy(value) == value = "params"

(* The chain of "if effects.get(stage): audio = stage(audio, ...)" *)
RECURSIVE ApplyStages(_, _, _)
ApplyStages(audio, effects, stages) ==
    IF stages = <<>> THEN audio
    ELSE ApplyStages(IF Truthy(EffectsGet(effects, Head(stages)))
                     THEN Append(audio, Head(stages)) ELSE audio,
                     effects, Tail(stages))

_apply_effects(audio, effects) == ApplyStages(audio, effects, TimeStages)

_apply_spectral_effects(D, effects) == ApplyStages(D, effects, SpectralStages)

(* process_audio: the effects given, or those of the config when none *)
process_audio(config_effects, effects) ==
    IF effects # <<>> THEN _apply_effects(<<>>, effects)
    ELSE _apply_effects(<<>>, config_effects)

process_spectrum(effects) ==
    IF effects # <<>> THEN _apply_spectral_effects(<<>>, effects) ELSE <<>>

(* The cleanup task.  `handle` is self._cleanup_task; `live` counts the     *)
(* tasks running _cleanup_loop that nobody cancelled, `cancelled` those on *)
(* which cancel() was called and that have not yet met the CancelledError  *)
(* at their sleep.                                                         *)
NoTasks == [live |-> 0, cancelled |-> 0]

Loop(handle, t) == [handle |-> handle, live |-> t.live, cancelled |-> t.cancelled]

start_cleanup_task(loop) ==
    IF loop.handle = "None"
    THEN [loop EXCEPT !.handle = "sleeping", !.live = @ + 1]
    ELSE loop

(* stop_cleanup_task that drops the handle without cancel() *)
stop_cleanup_task_no_cancel(loop) == [loop EXCEPT !.handle = "None"]

stop_cleanup_task(loop) ==
    IF loop.handle # "None"
    THEN [loop EXCEPT !.handle = "None", !.live = @ - 1, !.cancelled = @ + 1]
    ELSE loop

----------------------------------------------------------------------------
(* The state machine *)

World ==
    [files |-> files, cache_index |-> cache_index, index_file |-> index_file,
     cache_dir |-> cache_dir]

SetWorld(w) ==
    /\ files' = w.files
    /\ cache_index' = w.cache_index
    /\ index_file' = w.index_file
    /\ cache_dir' = w.cache_dir

NoScenario == [on |-> FALSE, reqs |-> <<>>]

(* What the directory held for a key when a call began. *)
NoPre == [indexed |-> FALSE, exists |-> FALSE, created_at |-> 0]

PreOf(key) ==
    [indexed |-> HasKey(cache_index, key),
     exists |-> files[_get_cache_path(key)].exists,
     created_at |-> IF HasKey(cache_index, key) THEN EntryOf(cache_index, key).created_at
                    ELSE 0]

(* The call that came right before a call. *)
(* What a restart knows of the process that ended: whether it was killed  *)
(* inside _save_index, the entries it had stored by calls that returned,   *)
(* and the index the file held before, and was to hold after, that save.   *)
NoEnded == [killed |-> FALSE, index |-> <<>>, old |-> <<>>, new |-> <<>>]

NoCall == [op |-> "none", key |-> <<>>, data |-> <<>>, raised |-> "none", failed |-> FALSE]

Before == [op |-> last.op, key |-> last.key, data |-> last.data, raised |-> last.raised,
           failed |-> last.failed]

Call(op, key, data, out, stats) ==
    [op |-> op, key |-> key, data |-> data, result |-> out.result, raised |-> out.raised,
     evicted |-> out.evicted, failed |-> FALSE, stats |-> stats, pre |-> NoPre,
     after |-> NoCall, ended |-> NoEnded]

Returned(w) == Outcome(w, None, "none", <<>>)

(* No run of main() and no call of an effect chain has begun. *)
NoRun == [files |-> <<>>, reports |-> <<>>, status |-> "none"]
NoChain == [processor |-> "none", config |-> <<>>, effects |-> <<>>, applied |-> <<>>,
            called |-> FALSE]

InitRun ==
    /\ batch = NoRun
    /\ chain = NoChain

InitFactory ==
    /\ plugins = <<>>
    /\ factory = TTSEngineFactory(plugins)
    /\ type_factory = TypeFactory
    /\ instances = 0

InitEngines ==
    /\ pyttsx3 = PyTTSx3Engine
    /\ gtts = GTTSEngine
    /\ elevenlabs = ElevenLabsEngine

Init ==
    /\ files = [p \in Paths |-> NoFile]
    /\ cache_index = <<>>
    /\ index_file = NoIndexFile
    /\ cache_dir = TRUE
    /\ cleanup_task = "None"
    /\ tasks = NoTasks
    /\ running = TRUE
    /\ now = 0
    /\ io_mode = "ok"
    /\ last = Call("__init__", <<>>, <<>>, Returned(World), NoStats)
    /\ scenario = [on |-> TRUE, reqs |-> <<>>]
    /\ in1 = Req(<<>>, <<>>, <<>>, <<>>)
    /\ in2 = in1
    /\ key1 = KeyOf(in1)
    /\ key2 = KeyOf(in2)
    /\ InitFactory
    /\ InitEngines
    /\ InitRun

Tick ==
    /\ now < MaxTime
    /\ now' = now + 1
    /\ last' = Call("tick", <<>>, <<>>, Returned(World), NoStats)
    /\ scenario' = NoScenario
    /\ UNCHANGED <<files, cache_index, index_file, cache_dir, cleanup_task, io_mode, tasks, idleVars>>

(* How many bytes a write that fails on a full disk leaves in the file:   *)
(* none, or all but the last.                                              *)
Written(audio_data) ==
    IF io_mode = "full" /\ Len(audio_data) > 0 THEN {0, Len(audio_data) - 1} ELSE {0}

CacheAudio(req, audio_data) ==
    \E written \in Written(audio_data) :
        \E out \in {cache_audio(World, req, audio_data, now, io_mode, written)} :
            /\ SetWorld(out.w)
            /\ last' = [Call("cache_audio", KeyOf(req), audio_data, out, NoStats)
                          EXCEPT !.pre = PreOf(KeyOf(req)),
                                 !.failed = out.raised = "none"
                                            /\ (io_mode = "denied"
                                                \/ (io_mode = "full" /\ Len(audio_data) > 0))]
            /\ scenario' =
                  IF /\ scenario.on
                     /\ audio_data = ThreeMB
                     /\ \A i \in 1..Len(scenario.reqs) : scenario.reqs[i] # req
                     /\ out.raised = "none"
                     /\ io_mode = "ok"
                  THEN [on |-> TRUE, reqs |-> Append(scenario.reqs, req)]
                  ELSE NoScenario
            /\ UNCHANGED <<cleanup_task, now, io_mode, tasks, idleVars>>

GetCachedAudio(req) ==
    \E out \in {get_cached_audio(World, req, now, io_mode)} :
        /\ SetWorld(out.w)
        /\ last' = [Call("get_cached_audio", KeyOf(req), <<>>, out, NoStats)
                      EXCEPT !.pre = PreOf(KeyOf(req)), !.after = Before]
        /\ scenario' = NoScenario
        /\ UNCHANGED <<cleanup_task, now, io_mode, tasks, idleVars>>

RemoveFromCache(req) ==
    \E w \in {remove_from_cache(World, KeyOf(req), io_mode)} :
        /\ SetWorld(w)
        /\ last' = [Call("remove_from_cache", KeyOf(req), <<>>, Returned(w), NoStats)
                      EXCEPT !.pre = PreOf(KeyOf(req))]
        /\ scenario' = NoScenario
        /\ UNCHANGED <<cleanup_task, now, io_mode, tasks, idleVars>>

ClearCache ==
    \E w \in {clear_cache(World, io_mode)} :
        /\ SetWorld(w)
        /\ last' = [Call("clear_cache", <<>>, <<>>, Returned(w), NoStats)
                      EXCEPT !.evicted = KeysOf(cache_index)]
        /\ scenario' = NoScenario
        /\ UNCHANGED <<cleanup_task, now, io_mode, tasks, idleVars>>

GetCacheStats ==
    /\ last' = Call("get_cache_stats", <<>>, <<>>, Returned(World), get_cache_stats(World, now))
    /\ scenario' = NoScenario
    /\ UNCHANGED <<files, cache_index, index_file, cache_dir, cleanup_task, now, io_mode, tasks, idleVars>>

SetLoop(loop) ==
    /\ cleanup_task' = loop.handle
    /\ tasks' = [live |-> loop.live, cancelled |-> loop.cancelled]

StartCleanupTask ==
    /\ SetLoop(start_cleanup_task(Loop(cleanup_task, tasks)))
    /\ last' = Call("start_cleanup_task", <<>>, <<>>, Returned(World), NoStats)
    /\ scenario' = NoScenario
    /\ UNCHANGED <<files, cache_index, index_file, cache_dir, now, io_mode, idleVars>>

StopCleanupTask ==
    /\ cleanup_task = "None" \/ tasks.cancelled < MaxTasks
    /\ SetLoop(stop_cleanup_task(Loop(cleanup_task, tasks)))
    /\ last' = Call("stop_cleanup_task", <<>>, <<>>, Returned(World), NoStats)
    /\ scenario' = NoScenario
    /\ UNCHANGED <<files, cache_index, index_file, cache_dir, now, io_mode, idleVars>>

(* A cleanup task that was not cancelled wakes from its sleep and runs one *)
(* pass.                                                                   *)
CleanupPass ==
    /\ tasks.live > 0
    /\ \E w \in {CleanupPassOf(World, now, io_mode)} :
           /\ SetWorld(w)
           /\ last' = [Call("_cleanup_loop", <<>>, <<>>, Returned(w), NoStats)
                         EXCEPT !.evicted = KeysOf(SelectSeq(cache_index,
                                               LAMBDA e : ~HasKey(w.cache_index, e.key)))]
    /\ scenario' = NoScenario
    /\ UNCHANGED <<cleanup_task, now, io_mode, tasks, idleVars>>

(* A cancelled cleanup task is resumed: its sleep raises CancelledError,    *)
(* which _cleanup_loop catches to leave its loop.                          *)
CancelledTaskEnds ==
    /\ tasks.cancelled > 0
    /\ tasks' = [tasks EXCEPT !.cancelled = @ - 1]
    /\ last' = Call("CancelledError", <<>>, <<>>, Returned(World), NoStats)
    /\ scenario' = NoScenario
    /\ UNCHANGED <<files, cache_index, index_file, cache_dir, cleanup_task, now, io_mode,
                   idleVars>>

(* The cache runs on one asyncio event loop.  get_cached_audio and          *)
(* cache_audio are coroutines without an await in their bodies, the other  *)
(* methods are plain functions, and _cleanup_loop awaits only its sleep:   *)
(* a call, or a cleanup pass, that has begun runs to its return before any *)
(* other one begins.  Concurrent callers therefore interleave whole calls, *)
(* in any order, which is what Next allows.                                *)
Next ==
    \/ Tick
    \/ \E req \in Requests, audio_data \in AudioData : CacheAudio(req, audio_data)
    \/ \E req \in Requests : GetCachedAudio(req)
    \/ \E req \in Requests : RemoveFromCache(req)
    \/ ClearCache
    \/ GetCacheStats
    \/ StartCleanupTask
    \/ StopCleanupTask
    \/ CleanupPass
    \/ CancelledTaskEnds

Spec == Init /\ [][Next]_vars

(* The disk fills up, becomes unwritable or recovers. *)
SetIoMode(mode) ==
    /\ mode # io_mode
    /\ io_mode' = mode
    /\ last' = Call("disk", <<>>, <<>>, Returned(World), NoStats)
    /\ scenario' = NoScenario
    /\ UNCHANGED <<files, cache_index, index_file, cache_dir, cleanup_task, now, tasks, idleVars>>

(* The calls of the cache on a disk that can fail, at one instant. *)
NextFault ==
    \/ \E req \in Requests, audio_data \in AudioData : CacheAudio(req, audio_data)
    \/ \E req \in Requests : GetCachedAudio(req)
    \/ \E req \in Requests : RemoveFromCache(req)
    \/ ClearCache
    \/ GetCacheStats
    \/ \E mode \in IoModes : SetIoMode(mode)

(* Inserts alone, of the five requests. *)
EvictAudio == {Fill(3, "x"), Fill(4, "y"), Fill(7, "x"), Fill(max_size_bytes + 1, "x")}

NextEvict ==
    \E req \in ScenarioRequests, audio_data \in EvictAudio : CacheAudio(req, audio_data)

SpecEvict == Init /\ [][NextEvict]_vars

SpecFault == Init /\ [][NextFault]_vars

(* Something other than the cache deletes a payload file. *)
ExternalDelete(req) ==
    /\ files[_get_cache_path(KeyOf(req))].exists
    /\ files' = [files EXCEPT ![_get_cache_path(KeyOf(req))] = NoFile]
    /\ last' = Call("external_delete", KeyOf(req), <<>>, Returned(World), NoStats)
    /\ scenario' = NoScenario
    /\ UNCHANGED <<cache_index, index_file, cache_dir, cleanup_task, now, io_mode, tasks, idleVars>>

(* The calls of the cache, the clock and the outside deletions. *)
NextEnv ==
    \/ Tick
    \/ \E req \in Requests, audio_data \in AudioData : CacheAudio(req, audio_data)
    \/ \E req \in Requests : GetCachedAudio(req)
    \/ \E req \in Requests : RemoveFromCache(req)
    \/ ClearCache
    \/ \E req \in Requests : ExternalDelete(req)

SpecEnv == Init /\ [][NextEnv]_vars

(* Another writer on the cache directory (a second AudioCache over the     *)
(* same directory, as the pool of run_parallel_conversion.py makes them)   *)
(* replaces the payload file of an indexed entry by a larger one.          *)
ExternalWrite(req, audio_data) ==
    /\ HasKey(cache_index, KeyOf(req))
    /\ files[_get_cache_path(KeyOf(req))].exists
    /\ Len(files[_get_cache_path(KeyOf(req))].bytes) < Len(audio_data)
    /\ files' = [files EXCEPT ![_get_cache_path(KeyOf(req))] = WholeFile(audio_data)]
    /\ last' = Call("external_write", KeyOf(req), audio_data, Returned(World), NoStats)
    /\ scenario' = NoScenario
    /\ UNCHANGED <<cache_index, index_file, cache_dir, cleanup_task, now, io_mode, tasks, idleVars>>

CleanupAudio == {Fill(3, "x"), Fill(7, "y")}
OutsideAudio == {Fill(8, "x")}

(* The cleanup task beside the inserts, the clock and the outside writes. *)
NextCleanup ==
    \/ Tick
    \/ \E req \in Requests, audio_data \in CleanupAudio : CacheAudio(req, audio_data)
    \/ \E req \in Requests, audio_data \in OutsideAudio : ExternalWrite(req, audio_data)
    \/ StartCleanupTask
    \/ CleanupPass

SpecCleanup == Init /\ [][NextCleanup]_vars

----------------------------------------------------------------------------
(* The process that holds the cache ends and a new AudioCache is made on   *)
(* the same directory.                                                     *)

(* Where in _save_index a kill of the process falls: before open(), which  *)
(* leaves the file as it was; between open(), which truncates the file,    *)
(* and the end of the write; after the file is closed.                     *)
KillPoints == {"before_open", "writing", "closed"}

KilledSave(prev, done, point) ==
    CASE point = "before_open" -> [done EXCEPT !.index_file = prev.index_file]
      [] point = "writing" -> [done EXCEPT !.index_file = TruncatedIndexFile]
      [] OTHER -> done

(* The entries that calls which returned had stored and that the call in   *)
(* progress neither removes nor stores anew.                               *)
Survivors(prev, done, key, storing) ==
    SelectSeq(prev.cache_index,
              LAMBDA e : HasKey(done.cache_index, e.key) /\ ~(storing /\ e.key = key))

(* The process dies inside the _save_index of a call: what the call did to *)
(* the directory before stays, the objects of the process are gone.        *)
Killed(op, key, done, point, storing) ==
    /\ SetWorld([KilledSave(World, done, point) EXCEPT !.cache_index = <<>>])
    /\ cleanup_task' = "None"
    /\ tasks' = NoTasks
    /\ running' = FALSE
    /\ last' = [Call("killed", key, <<>>, Returned(World), NoStats)
                  EXCEPT !.ended = [killed |-> TRUE,
                                    index |-> Survivors(World, done, key, storing),
                                    old |-> IndexIn(index_file),
                                    new |-> done.cache_index]]
    /\ scenario' = NoScenario
    /\ UNCHANGED <<now, io_mode, keyVars, runVars, factoryVars, engineVars>>

(* A cache_audio that evicts nothing calls _save_index once, as its last   *)
(* statement before the return.                                            *)
KilledInCacheAudio(req, audio_data) ==
    /\ running
    /\ io_mode = "ok"
    /\ \E out \in {cache_audio(World, req, audio_data, now, io_mode, 0)}, point \in KillPoints :
           /\ out.raised = "none"
           /\ out.evicted = <<>>
           /\ Killed("cache_audio", KeyOf(req), out.w, point, TRUE)

(* A get_cached_audio of an indexed key calls _save_index once, on a hit   *)
(* and on either miss.                                                     *)
KilledInGetCachedAudio(req) ==
    /\ running
    /\ io_mode = "ok"
    /\ HasKey(cache_index, KeyOf(req))
    /\ \E out \in {get_cached_audio(World, req, now, io_mode)}, point \in KillPoints :
           Killed("get_cached_audio", KeyOf(req), out.w, point, FALSE)

(* AudioCache(cache_dir) in a new process; a process that still runs ends  *)
(* first, which writes nothing.                                            *)
Restart ==
    /\ \E w \in {__init__(World, io_mode)} :
           /\ SetWorld(w)
           /\ last' = [Call("__init__", <<>>, <<>>, Returned(w), NoStats)
                         EXCEPT !.ended = IF running
                                          THEN [killed |-> FALSE, index |-> cache_index,
                                                old |-> IndexIn(index_file),
                                                new |-> IndexIn(index_file)]
                                          ELSE last.ended]
    /\ cleanup_task' = "None"
    /\ tasks' = NoTasks
    /\ running' = TRUE
    /\ scenario' = NoScenario
    /\ UNCHANGED <<now, io_mode, keyVars, runVars, factoryVars, engineVars>>

(* The audio stored around a restart. *)
CrashAudio == {Fill(3, "x"), Fill(4, "y")}

NextCrash ==
    \/ running /\ Tick
    \/ running /\ \E req \in Requests, audio_data \in CrashAudio : CacheAudio(req, audio_data)
    \/ running /\ \E req \in Requests : GetCachedAudio(req)
    \/ \E req \in Requests, audio_data \in CrashAudio : KilledInCacheAudio(req, audio_data)
    \/ \E req \in Requests : KilledInGetCachedAudio(req)
    \/ Restart

SpecCrash == Init /\ [][NextCrash]_vars

----------------------------------------------------------------------------
(* The calls of the two factories *)

cacheRest == <<files, cache_index, index_file, cache_dir, cleanup_task, tasks, running, now,
               io_mode, scenario>>

(* A call of a factory: which factory, the name and class given, what came *)
(* back, what the factory held for the name when the call began, and       *)
(* whether the call caught an exception of an engine constructor.          *)
FactoryCall(op, which, name, class, out, registered, memoized) ==
    [op |-> op, factory |-> which, name |-> name, class |-> class, result |-> out.result,
     raised |-> out.raised, registered |-> registered, memoized |-> memoized,
     caught |-> FALSE]

InitDiscovery ==
    /\ files = [p \in Paths |-> NoFile]
    /\ cache_index = <<>>
    /\ index_file = NoIndexFile
    /\ cache_dir = TRUE
    /\ cleanup_task = "None"
    /\ tasks = NoTasks
    /\ running = TRUE
    /\ now = 0
    /\ io_mode = "ok"
    /\ last = Call("__init__", <<>>, <<>>, Returned(World), NoStats)
    /\ scenario = NoScenario
    /\ in1 = Req(<<>>, <<>>, <<>>, <<>>)
    /\ in2 = in1
    /\ key1 = KeyOf(in1)
    /\ key2 = KeyOf(in2)
    /\ plugins \in PluginListings
    /\ factory = NotConstructed
    /\ type_factory = TypeFactory
    /\ instances = 0
    /\ InitEngines
    /\ InitRun

(* TTSEngineFactory() with the plugins directory as it is *)
Construct ==
    /\ ~factory.constructed
    /\ factory' = TTSEngineFactory(plugins)
    /\ last' = FactoryCall("TTSEngineFactory", "dist", "None", NoClass,
                           Made(factory', NoEngine, "none"), NoClass, NoEngine)
    /\ UNCHANGED <<plugins, type_factory, instances, cacheRest, keyVars, runVars, engineVars>>

GetEngine(engine_name) ==
    /\ factory.constructed
    /\ \E constructor_raises \in
            IF ConstructorCanRaise(factory._engine_classes[engine_name])
            THEN BOOLEAN ELSE {FALSE} :
         \E out \in {get_engine(factory, engine_name, instances + 1, constructor_raises)} :
            /\ out.f = factory \/ instances < MaxInstances
            /\ factory' = out.f
            /\ instances' = IF out.f = factory THEN instances ELSE instances + 1
            /\ last' = [FactoryCall("get_engine", "dist", engine_name, NoClass, out,
                                    factory._engine_classes[engine_name],
                                    factory._engines[engine_name])
                          EXCEPT !.caught = /\ constructor_raises
                                            /\ factory._engines[engine_name] = NoEngine]
    /\ UNCHANGED <<plugins, type_factory, cacheRest, keyVars, runVars, engineVars>>

RegisterEngine(engine_name, engine_class) ==
    /\ factory.constructed
    /\ factory' = register_engine(factory, engine_name, engine_class)
    /\ last' = FactoryCall("register_engine", "dist", engine_name, engine_class,
                           Made(factory', NoEngine, "none"),
                           factory._engine_classes[engine_name], factory._engines[engine_name])
    /\ UNCHANGED <<plugins, type_factory, instances, cacheRest, keyVars, runVars, engineVars>>

UnregisterEngine(engine_name) ==
    /\ factory.constructed
    /\ factory' = unregister_engine(factory, engine_name)
    /\ last' = FactoryCall("unregister_engine", "dist", engine_name, NoClass,
                           Made(factory', NoEngine, "none"),
                           factory._engine_classes[engine_name], factory._engines[engine_name])
    /\ UNCHANGED <<plugins, type_factory, instances, cacheRest, keyVars, runVars, engineVars>>

FactoryCleanup ==
    /\ factory.constructed
    /\ factory' = factory_cleanup(factory)
    /\ last' = FactoryCall("cleanup", "dist", "None", NoClass, Made(factory', NoEngine, "none"),
                           NoClass, NoEngine)
    /\ UNCHANGED <<plugins, type_factory, instances, cacheRest, keyVars, runVars, engineVars>>

TypeGetEngine(engine_type) ==
    /\ \E out \in {TypeFactory_get_engine(type_factory, engine_type, instances + 1)} :
            /\ out.raised # "none" \/ instances < MaxInstances
            /\ instances' = IF out.raised # "none" THEN instances ELSE instances + 1
            /\ last' = FactoryCall("get_engine", "type", engine_type, NoClass, out,
                                   type_factory._engines[engine_type], NoEngine)
    /\ UNCHANGED <<plugins, factory, type_factory, cacheRest, keyVars, runVars, engineVars>>

TypeRegisterEngine(engine_type, engine_class) ==
    /\ type_factory' = TypeFactory_register_engine(type_factory, engine_type, engine_class)
    /\ last' = FactoryCall("register_engine", "type", engine_type, engine_class,
                           Made(type_factory', NoEngine, "none"),
                           type_factory._engines[engine_type], NoEngine)
    /\ UNCHANGED <<plugins, factory, instances, cacheRest, keyVars, runVars, engineVars>>

(* The names and classes the calls are made with. *)
CalledNames == {"pyttsx3", "gtts", "elevenlabs"}
RegisteredNames == {"pyttsx3", "gtts"}
RegisteredClasses == {"PyTTSx3Engine", "GTTSEngine", "dict"}
CalledTypes == {"edge-tts", "custom"}

NextFactory ==
    \/ \E engine_name \in CalledNames : GetEngine(engine_name)
    \/ \E engine_name \in RegisteredNames, engine_class \in RegisteredClasses :
           RegisterEngine(engine_name, engine_class)
    \/ \E engine_name \in CalledNames : UnregisterEngine(engine_name)
    \/ FactoryCleanup
    \/ \E engine_type \in CalledTypes : TypeGetEngine(engine_type)
    \/ \E engine_type \in CalledTypes : TypeRegisterEngine(engine_type, "GTTSEngine")

SpecFactory == Init /\ [][NextFactory]_vars

(* The construction of the factory over every plugins directory, and the   *)
(* engines it then hands out.                                              *)
NextDiscovery ==
    \/ Construct
    \/ \E engine_name \in FactoryNames : GetEngine(engine_name)

SpecDiscovery == InitDiscovery /\ [][NextDiscovery]_vars

----------------------------------------------------------------------------
(* The calls of one PyTTSx3Engine and of one GTTSEngine.  The coroutines   *)
(* of an engine run on one event loop, so each runs without interruption   *)
(* from one await to the next; the worker thread of the PyTTSx3Engine and  *)
(* the playback of pygame run beside them.                                 *)

(* A call of an engine: which engine, the exception raised, and the engine *)
(* as it was when the call began.                                          *)
EngineCall(op, which, raised, before) ==
    [op |-> op, engine |-> which, raised |-> raised, before |-> before]

SetPyTTSx3(op, out) ==
    /\ pyttsx3' = out.e
    /\ last' = EngineCall(op, "pyttsx3", out.raised, pyttsx3)
    /\ UNCHANGED <<gtts, elevenlabs, cacheRest, keyVars, runVars, factoryVars>>

SetGTTS(op, out) ==
    /\ gtts' = out.e
    /\ last' = EngineCall(op, "gtts", out.raised, gtts)
    /\ UNCHANGED <<pyttsx3, elevenlabs, cacheRest, keyVars, runVars, factoryVars>>

PyInitialize ==
    \E init_raises \in BOOLEAN :
        SetPyTTSx3("initialize", PyTTSx3Engine_initialize(pyttsx3, init_raises))

PySpeak(text) ==
    /\ pyttsx3.calls < MaxCalls
    /\ pyttsx3.requested < MaxSpeaks
    /\ Len(pyttsx3._text_queue) < MaxQueue
    /\ SetPyTTSx3("speak", PyTTSx3Engine_speak(pyttsx3, text))

(* The executor has run say and runAndWait, or one of them raised: speak() *)
(* returns or raises and changes no field.                                 *)
PySpeakEnds ==
    /\ pyttsx3.calls > pyttsx3.executor
    /\ \E raised \in {"none", "TTSEngineError"} :
           SetPyTTSx3("speak_end", Did([pyttsx3 EXCEPT !.calls = @ - 1], raised))

PyPause == SetPyTTSx3("pause", PyTTSx3Engine_pause(pyttsx3))

PyResume ==
    /\ \/ pyttsx3._text_queue = <<>>
       \/ ~pyttsx3._engine
       \/ pyttsx3.calls < MaxCalls /\ pyttsx3.requested < MaxSpeaks
    /\ SetPyTTSx3("resume", PyTTSx3Engine_resume(pyttsx3))

PyStop == SetPyTTSx3("stop", PyTTSx3Engine_stop(pyttsx3))

PyCleanup == SetPyTTSx3("cleanup", PyTTSx3Engine_cleanup(pyttsx3))

(* One turn of _process_queue, the thread that initialize() started. *)
ProcessQueue ==
    /\ pyttsx3.initialized
    /\ pyttsx3._text_queue # <<>>
    /\ ~pyttsx3._stop_requested
    /\ pyttsx3.worker = "idle"
    /\ SetPyTTSx3("_process_queue", PyTTSx3Engine__process_queue(pyttsx3))

(* The thread of _process_queue comes back from runAndWait. *)
WorkerDone ==
    /\ pyttsx3.worker = "driving"
    /\ SetPyTTSx3("_process_queue_done", Did([pyttsx3 EXCEPT !.worker = "idle"], "none"))

(* An executor thread comes back from say and runAndWait, or from the one  *)
(* of them that raised.                                                    *)
ExecutorDone ==
    /\ pyttsx3.executor > 0
    /\ SetPyTTSx3("executor_done", Did([pyttsx3 EXCEPT !.executor = @ - 1], "none"))

GSpeak(text) ==
    /\ gtts.calls < MaxCalls
    /\ \E raises \in BOOLEAN : SetGTTS("speak", GTTSEngine_speak(gtts, text, raises))

(* get_busy() is false once the music has ended or was stopped and, from   *)
(* pygame 2.0.1 on, also while it is paused.                               *)
GSpeakEnds ==
    /\ gtts.calls > 0
    /\ gtts.music # "playing"
    /\ \E raises \in BOOLEAN : SetGTTS("speak_end", GTTSEngine_speak_done(gtts, raises))

(* The music plays to its end. *)
PlaybackEnds ==
    /\ gtts.music = "playing"
    /\ SetGTTS("playback_end", Did([gtts EXCEPT !.music = "idle"], "none"))

GPause == SetGTTS("pause", GTTSEngine_pause(gtts))

GResume == SetGTTS("resume", GTTSEngine_resume(gtts))

GStop == SetGTTS("stop", GTTSEngine_stop(gtts))

NextEngine ==
    \/ PyInitialize
    \/ \E text \in Texts : PySpeak(text)
    \/ PySpeakEnds
    \/ PyPause
    \/ PyResume
    \/ PyStop
    \/ PyCleanup
    \/ ProcessQueue
    \/ WorkerDone
    \/ ExecutorDone
    \/ \E text \in Texts : GSpeak(text)
    \/ GSpeakEnds
    \/ PlaybackEnds
    \/ GPause
    \/ GResume
    \/ GStop

SpecEngine == Init /\ [][NextEngine]_vars

----------------------------------------------------------------------------
(* The calls of one ElevenLabsEngine *)

SetElevenLabs(op, out) ==
    /\ elevenlabs' = out.e
    /\ last' = EngineCall(op, "elevenlabs", out.raised, elevenlabs)
    /\ UNCHANGED <<pyttsx3, gtts, cacheRest, keyVars, runVars, factoryVars>>

EInitialize ==
    \E raises \in BOOLEAN :
        SetElevenLabs("initialize", ElevenLabsEngine_initialize(elevenlabs, raises))

EConfigure(settings) ==
    SetElevenLabs("configure", ElevenLabsEngine_configure(elevenlabs, settings))

ESpeak(text) ==
    \E raises \in BOOLEAN :
        SetElevenLabs("speak", ElevenLabsEngine_speak(elevenlabs, text, raises))

EPause == SetElevenLabs("pause", ElevenLabsEngine_pause(elevenlabs))

EResume == SetElevenLabs("resume", ElevenLabsEngine_resume(elevenlabs))

EStop == SetElevenLabs("stop", ElevenLabsEngine_stop(elevenlabs))

ECleanup == SetElevenLabs("cleanup", ElevenLabsEngine_cleanup(elevenlabs))

NextElevenLabs ==
    \/ EInitialize
    \/ \E settings \in ConfigureSettings : EConfigure(settings)
    \/ \E text \in Texts : ESpeak(text)
    \/ EPause
    \/ EResume
    \/ EStop
    \/ ECleanup

SpecElevenLabs == Init /\ [][NextElevenLabs]_vars

----------------------------------------------------------------------------

(* The runs over several files: main() of dist/main.py takes the files in  *)
(* the order of the command line; run_parallel_conversion.py hands them to *)
(* a pool, which takes them in any order.                                  *)

SetBatch(op, run) ==
    /\ batch' = run
    /\ last' = [op |-> op, before |-> batch]
    /\ UNCHANGED <<chain, cacheRest, keyVars, factoryVars, engineVars>>

Main(paths) ==
    /\ batch.status # "running" /\ batch.status # "pool"
    /\ SetBatch("main", StartRun("running", paths))

MainLoop ==
    /\ batch.status = "running"
    /\ \E i \in {Len(batch.files) - Cardinality(Pending(batch)) + 1} :
           SetBatch("main_loop", main_loop(batch, i))

ParallelMain(paths) ==
    /\ batch.status # "running" /\ batch.status # "pool"
    /\ SetBatch("parallel_main", StartRun("pool", paths))

ProcessFileAsync ==
    /\ batch.status = "pool"
    /\ \E i \in Pending(batch) : SetBatch("process_file_async", process_file_async(batch, i))

NextBatch ==
    \/ \E paths \in BatchFiles : Main(paths)
    \/ MainLoop
    \/ \E paths \in BatchFiles : ParallelMain(paths)
    \/ ProcessFileAsync

SpecBatch == Init /\ [][NextBatch]_vars

----------------------------------------------------------------------------

(* The calls of the two effect chains *)

ConfigEffects == {<<>>, <<<<"reverb", "params">>>>}

SetChain(processor, config, effects, applied) ==
    /\ chain' = [processor |-> processor, config |-> config, effects |-> effects,
                 applied |-> applied, called |-> TRUE]
    /\ last' = [op |-> processor]
    /\ UNCHANGED <<batch, cacheRest, keyVars, factoryVars, engineVars>>

ProcessAudio(config, effects) ==
    SetChain("process_audio", config, effects, process_audio(config, effects))

ProcessSpectrum(effects) ==
    SetChain("process_spectrum", <<>>, effects, process_spectrum(effects))

NextEffects ==
    \/ \E config \in ConfigEffects, effects \in EffectMaps(TimeStages) :
           ProcessAudio(config, effects)
    \/ \E effects \in EffectMaps(SpectralStages) : ProcessSpectrum(effects)

SpecEffects == Init /\ [][NextEffects]_vars

----------------------------------------------------------------------------

(* _generate_cache_key applied to two argument tuples.  The first tuple is *)
(* any tuple of the bounded inputs; the second is made from the first by   *)
(* giving the settings in another insertion order, by changing the         *)
(* settings, by changing the text and the engine, or by changing the voice *)
(* id.                                                                     *)

InitKey ==
    /\ files = [p \in Paths |-> NoFile]
    /\ cache_index = <<>>
    /\ index_file = NoIndexFile
    /\ cache_dir = TRUE
    /\ cleanup_task = "None"
    /\ tasks = NoTasks
    /\ running = TRUE
    /\ now = 0
    /\ io_mode = "ok"
    /\ last = Call("__init__", <<>>, <<>>, Returned(World), NoStats)
    /\ scenario = NoScenario
    /\ in1 \in KeyInputs
    /\ in2 = in1
    /\ key1 = KeyOf(in1)
    /\ key2 = KeyOf(in2)
    /\ InitFactory
    /\ InitEngines
    /\ InitRun

SecondCall(inputs) ==
    /\ in2 = in1
    /\ in2' = inputs
    /\ key2' = KeyOf(inputs)
    /\ UNCHANGED <<in1, key1, cacheVars, factoryVars, engineVars, runVars>>

ReorderSettings ==
    \E s \in SettingsDicts :
        /\ AsMap(s) = AsMap(in1.settings)
        /\ s # in1.settings
        /\ SecondCall([in1 EXCEPT !.settings = s])

ChangeSettings ==
    \E s \in SettingsDicts :
        /\ AsMap(s) # AsMap(in1.settings)
        /\ SecondCall([in1 EXCEPT !.settings = s])

ChangeTextAndEngine ==
    \E t \in Strings, e \in Strings :
        /\ <<t, e>> # <<in1.text, in1.engine>>
        /\ SecondCall([in1 EXCEPT !.text = t, !.engine = e])

ChangeVoice ==
    \E v \in Strings :
        /\ v # in1.voice_id
        /\ SecondCall([in1 EXCEPT !.voice_id = v])

NextKey == ReorderSettings \/ ChangeSettings \/ ChangeTextAndEngine \/ ChangeVoice

SpecKey == InitKey /\ [][NextKey]_vars

SameInputs(a, b) ==
    /\ a.text = b.text
    /\ a.engine = b.engine
    /\ a.voice_id = b.voice_id
    /\ AsMap(a.settings) = AsMap(b.settings)

(* C2: two calls of _generate_cache_key with the same text, engine and     *)
(* voice id and with settings that are equal as maps return the same key,  *)
(* whatever the insertion order of the settings.                           *)
C2_KeyIgnoresInsertionOrder == SameInputs(in1, in2) => key1 = key2

C2_Witness ==
    /\ SameInputs(in1, in2)
    /\ Len(in1.settings) = 2
    /\ in1.settings # in2.settings
    /\ key1 = key2

(* C3: two tuples (text, engine, voice_id, settings) that differ in at     *)
(* least one of the four inputs get different keys.                        *)
C3_DistinctInputsDistinctKeys == ~SameInputs(in1, in2) => key1 # key2

----------------------------------------------------------------------------
(* The claims about the cache *)

TotalSizeBytes == get_cache_stats(World, now).total_size_bytes

GetRightAfterCache ==
    /\ last.op = "get_cached_audio"
    /\ last.after.op = "cache_audio"
    /\ last.after.key = last.key

C4_OversizeKeepsTotalInBounds ==
    (last.op = "cache_audio" /\ Len(last.data) > max_size_bytes)
        => TotalSizeBytes <= max_size_bytes

C4_Witness ==
    /\ last.op = "cache_audio"
    /\ Len(last.data) > max_size_bytes
    /\ Len(last.evicted) = 2
    /\ TotalSizeBytes = 0

(* The keys indexed before a call of cache_audio without the first n of    *)
(* its victims, and the bytes of their payloads.                           *)
Remaining(victims, n) ==
    SelectSeq(cache_index, LAMBDA e : \A i \in 1..n : victims[i] # e.key)

RemainingSize(victims, n) == SumSizes(World, Remaining(victims, n))

EvictsLargestFirst(victims, target_size, raised) ==
    /\ \A i \in 1..Len(victims) :
          /\ HasKey(Remaining(victims, i - 1), victims[i])
          /\ \A j \in 1..Len(cache_index) :
                HasKey(Remaining(victims, i - 1), cache_index[j].key)
                    => StatSize(World, cache_index[j].key) <= StatSize(World, victims[i])
          /\ RemainingSize(victims, i - 1) > target_size
    /\ raised = "none" => RemainingSize(victims, Len(victims)) <= target_size

(* C5: when the cache size plus len(audio) exceeds max_size_bytes,         *)
(* cache_audio evicts entries one at a time, each victim of largest        *)
(* payload size among the entries still indexed, and stops as soon as the  *)
(* total is at most max_size_bytes - len(audio); and five distinct 3 MB    *)
(* entries cached in sequence under max_size_bytes = 10 MB leave a total   *)
(* of at most 10 MB with exactly the two oldest entries gone.              *)
C5_GreedyLargestFirst ==
    [][ /\ last'.op = "cache_audio"
            => IF _get_cache_size(World) + Len(last'.data) > max_size_bytes
               THEN EvictsLargestFirst(last'.evicted, max_size_bytes - Len(last'.data),
                                       last'.raised)
               ELSE last'.evicted = <<>>
        /\ (scenario'.on /\ Len(scenario'.reqs) = 5)
            => /\ _get_cache_size(World)' <= max_size_bytes
               /\ KeysOf(cache_index') = [i \in 1..3 |-> KeyOf(scenario'.reqs[i + 2])]
      ]_vars

C5_Witness ==
    /\ scenario.on
    /\ Len(scenario.reqs) = 5
    /\ Len(cache_index) = 3
    /\ last.evicted = <<KeyOf(scenario.reqs[2])>>

MissCase ==
    /\ last.op = "get_cached_audio"
    /\ last.pre.indexed
    /\ ~last.pre.exists \/ now - last.pre.created_at > max_age_seconds

(* C6: get_cached_audio returns None and removes the entry from the index, *)
(* in memory and in the index file, whenever the entry's payload file is   *)
(* missing or now - created_at > max_age_seconds; the payload file of an   *)
(* expired entry is deleted as well.                                       *)
C6_MissEvictsEntry ==
    MissCase
        => /\ last.result = None
           /\ ~HasKey(cache_index, last.key)
           /\ index_file.exists /\ ~index_file.corrupt
           /\ ~HasKey(IndexIn(index_file), last.key)
           /\ ~files[_get_cache_path(last.key)].exists

C6_Witness ==
    /\ MissCase
    /\ ~last.pre.exists
    /\ now - last.pre.created_at <= max_age_seconds
    /\ Len(cache_index) = 1

PayloadWhole(key) ==
    /\ files[_get_cache_path(key)].exists
    /\ files[_get_cache_path(key)].complete

(* C7: after a cache_audio whose payload write failed, no index entry, in  *)
(* memory or in the index file, points at a missing or partially written  *)
(* payload, whatever the cache held before.                                *)
C7_FailedWriteLeavesNoBadEntry ==
    (last.op = "cache_audio" /\ last.failed)
        => /\ \A i \in 1..Len(cache_index) : PayloadWhole(cache_index[i].key)
           /\ \A i \in 1..Len(IndexIn(index_file)) : PayloadWhole(IndexIn(index_file)[i].key)

(* C8: every key of cache_index has its payload file on disk, in every     *)
(* state reached through the calls of the cache and the cleanup passes.    *)
C8_IndexedPayloadExists ==
    \A i \in 1..Len(cache_index) : files[_get_cache_path(cache_index[i].key)].exists

C8_Witness ==
    /\ last.op = "_cleanup_loop"
    /\ Len(last.evicted) = 1
    /\ Len(cache_index) = 1

(* C9: no public operation of the cache raises to its caller. *)
C9_NoCallRaises == last.raised = "none"

(* C10: the calls of the cache and the passes of the cleanup task run one  *)
(* at a time, each from its first line to its return, and under every      *)
(* order of them the index file holds exactly the entries of cache_index:  *)
(* no update of the index is lost.                                         *)
C10_IndexFileHoldsIndex ==
    IF index_file.exists
    THEN ~index_file.corrupt /\ index_file.content = json_dump_index(cache_index)
    ELSE cache_index = <<>>

C10_Witness ==
    /\ last.op = "cache_audio"
    /\ Len(last.evicted) = 1
    /\ Len(cache_index) = 2
    /\ cleanup_task = "sleeping"
    /\ IndexIn(index_file) = cache_index

----------------------------------------------------------------------------
(* Restarts, the cleanup task, clear_cache and remove_from_cache *)

(* C11: when a process was killed inside _save_index, the index the next   *)
(* AudioCache loads is the complete index the file held before that save   *)
(* or the complete index the save was writing.                             *)
C11_LoadsOldOrNewIndex ==
    (last.op = "__init__" /\ last.ended.killed)
        => cache_index \in {last.ended.old, last.ended.new}

(* C12: a get_cached_audio made right after a restart, for a key that the  *)
(* process that ended had stored and not since evicted or removed, whose   *)
(* payload file is there and whose entry has not expired, returns the      *)
(* bytes that were stored.                                                 *)
C12_HitAfterRestart ==
    [][(/\ last.op = "__init__"
        /\ last'.op = "get_cached_audio"
        /\ HasKey(last.ended.index, last'.key)
        /\ files[_get_cache_path(last'.key)].exists
        /\ ~Expired(EntryOf(last.ended.index, last'.key), now))
          => last'.result = Some(files[_get_cache_path(last'.key)].bytes)]_vars

AtMostOneCleanupTask ==
    /\ tasks.live <= 1
    /\ (cleanup_task = "None") <=> (tasks.live = 0)
    /\ last.op = "stop_cleanup_task" => cleanup_task = "None"
    /\ last.op = "_cleanup_loop" => cleanup_task # "None"

StartAndStopAreNoOps ==
    /\ (last'.op = "start_cleanup_task" /\ cleanup_task # "None")
          => UNCHANGED <<cleanup_task, tasks>>
    /\ (last'.op = "stop_cleanup_task" /\ cleanup_task = "None")
          => UNCHANGED <<cleanup_task, tasks>>
    /\ last'.op \in {"start_cleanup_task", "stop_cleanup_task", "CancelledError"}
          => UNCHANGED <<files, cache_index, index_file>>

(* C13: at most one cleanup task that was not cancelled exists, and it is  *)
(* the one the handle refers to; start_cleanup_task with a task running    *)
(* and stop_cleanup_task with none change nothing; after stop_cleanup_task *)
(* the handle is None, and a cleanup pass runs only while the handle is    *)
(* set; starting, stopping and the end of a cancelled task leave the cache *)
(* directory and the index as they are.                                    *)
C13_OneCleanupTask == []AtMostOneCleanupTask /\ [][StartAndStopAreNoOps]_vars

C13_Witness ==
    /\ last.op = "start_cleanup_task"
    /\ cleanup_task # "None"
    /\ tasks.live = 1
    /\ tasks.cancelled = 1

ClearedCache ==
    last.op = "clear_cache"
        => /\ last.raised = "none"
           /\ cache_index = <<>>
           /\ get_cache_stats(World, now).entry_count = 0
           /\ cache_dir

SecondClearChangesNothing ==
    (last.op = "clear_cache" /\ last'.op = "clear_cache")
        => /\ last'.raised = "none"
           /\ cache_index' = <<>>
           /\ UNCHANGED <<files, index_file, cache_dir>>

(* C14: after clear_cache the index is empty, get_cache_stats counts no    *)
(* entry and the cache directory still exists; a clear_cache right after a *)
(* clear_cache raises nothing and changes nothing.                         *)
C14_ClearEmptiesCache == []ClearedCache /\ [][SecondClearChangesNothing]_vars

C14_Witness ==
    /\ last.op = "clear_cache"
    /\ Len(last.evicted) = 2
    /\ cache_index = <<>>
    /\ cache_dir

(* C15: after a clear_cache of a cache that held entries, the cache        *)
(* directory holds no file: no payload file and no cache_index.json.       *)
C15_NoFilesAfterClear ==
    (last.op = "clear_cache" /\ last.evicted # <<>>)
        => /\ \A p \in Paths : ~files[p].exists
           /\ ~index_file.exists

RemovesOneEntry ==
    last'.op = "remove_from_cache"
        => /\ last'.raised = "none"
           /\ ~HasKey(cache_index', last'.key)
           /\ ~files'[_get_cache_path(last'.key)].exists
           /\ \A p \in Paths \ {_get_cache_path(last'.key)} : files'[p] = files[p]
           /\ cache_index' = SelectSeq(cache_index, LAMBDA e : e.key # last'.key)
           /\ ~HasKey(cache_index, last'.key) => UNCHANGED <<files, cache_index, index_file>>

(* C16: remove_from_cache(key) raises nothing; after it the key is not in  *)
(* the index and its payload file does not exist; every other entry, in    *)
(* its place, and every other payload file are as before; for a key that   *)
(* is not in the index, which is what a second call meets, nothing at all  *)
(* changes.                                                                *)
C16_RemoveIsIdempotent == [][RemovesOneEntry]_vars

C16_Witness ==
    /\ last.op = "remove_from_cache"
    /\ last.pre.indexed
    /\ last.pre.exists
    /\ cache_index # <<>>
    /\ ~files[_get_cache_path(last.key)].exists

----------------------------------------------------------------------------
(* The factories and the engines *)

GetEngineOnce ==
    last'.op = "get_engine"
        => /\ last'.registered = NoClass
                => (last'.result = NoEngine /\ last'.raised = "none")
           /\ (last'.registered # NoClass /\ ~last'.caught) => last'.result # NoEngine
           /\ (/\ last.op = "get_engine"
               /\ last.factory = last'.factory
               /\ last.name = last'.name
               /\ last.result # NoEngine)
                => last'.result = last.result

(* C17: get_engine(name), of either factory, returns None and raises       *)
(* nothing for a name that is not registered; for a registered name whose  *)
(* constructor does not fail it returns an engine, and a get_engine right  *)
(* after a get_engine of the same name returns the same engine.            *)
C17_GetEngineMemoized == [][GetEngineOnce]_vars

RegistryTakesEffect ==
    (/\ last'.op = "get_engine"
     /\ last'.factory = "dist"
     /\ last.op \in {"register_engine", "unregister_engine"}
     /\ last.factory = "dist"
     /\ last.name = last'.name)
        => /\ (last.op = "register_engine" /\ last.class \in EngineClasses /\ ~last'.caught)
                => last'.result.class = last.class
           /\ last.op = "unregister_engine" => last'.result = NoEngine

(* C18: in every state of the registry, a get_engine(name) right after     *)
(* register_engine(name, C), C an engine class whose constructor does not  *)
(* fail, returns an instance of C, and right after unregister_engine(name) *)
(* it returns None.                                                        *)
C18_RegisterTakesEffect == [][RegistryTakesEffect]_vars

(* C19: the constructor of the factory raises nothing and, whichever       *)
(* modules of the plugins directory fail to import, leaves pyttsx3         *)
(* registered and every module that imports and has ENGINE_CLASS           *)
(* registered with that class, under its ENGINE_NAME or else its file      *)
(* name.                                                                   *)
C19_FailingPluginIsSkipped ==
    factory.constructed
        => /\ last.op = "TTSEngineFactory" => last.raised = "none"
           /\ factory._engine_classes["pyttsx3"] = "PyTTSx3Engine"
           /\ \A i \in 1..Len(plugins) :
                 (plugins[i].import = "ok" /\ plugins[i].ENGINE_CLASS # NoClass)
                    => factory._engine_classes[IF plugins[i].ENGINE_NAME # "None"
                                               THEN plugins[i].ENGINE_NAME
                                               ELSE plugins[i].stem]
                          = plugins[i].ENGINE_CLASS

C19_Witness ==
    /\ last.op = "TTSEngineFactory"
    /\ Len(plugins) = 2
    /\ plugins[1].import = "raises"
    /\ plugins[2].import = "ok"
    /\ plugins[2].ENGINE_CLASS = "ElevenLabsEngine"
    /\ factory._engine_classes["elevenlabs"] = "ElevenLabsEngine"

(* C20: stop() on an engine in any state raises nothing and leaves         *)
(* is_speaking and is_paused false.                                        *)
C20_StopAlwaysSafe ==
    last.op = "stop"
        => /\ last.raised = "none"
           /\ last.engine = "pyttsx3" => (~pyttsx3._speaking /\ ~pyttsx3._paused)
           /\ last.engine = "gtts" => (~gtts._speaking /\ ~gtts._paused)

(* C21: pause() and resume() called while is_speaking is false leave       *)
(* is_speaking, is_paused and the queued texts of the engine as they were. *)
C21_PauseResumeIdleAreNoOps ==
    (last.op \in {"pause", "resume"} /\ ~last.before._speaking)
        => /\ last.engine = "pyttsx3"
                => /\ pyttsx3._speaking = last.before._speaking
                   /\ pyttsx3._paused = last.before._paused
                   /\ pyttsx3._text_queue = last.before._text_queue
           /\ last.engine = "gtts"
                => /\ gtts._speaking = last.before._speaking
                   /\ gtts._paused = last.before._paused

(* C22: cleanup() raises nothing in any state of the engine; after it the  *)
(* engine object is released, and a cleanup() of an engine that was        *)
(* already released changes nothing.                                       *)
C22_CleanupAlwaysSafe ==
    (last.op = "cleanup" /\ last.engine = "pyttsx3")
        => /\ last.raised = "none"
           /\ ~pyttsx3._engine
           /\ ~pyttsx3._speaking /\ ~pyttsx3._paused
           /\ (~last.before._engine /\ last.before.initialized) => pyttsx3 = last.before

(* C23: when configure(settings) raises because a value is out of range,   *)
(* the settings of the engine are those it had before the call.            *)
C23_FailedConfigureKeepsSettings ==
    (last.op = "configure" /\ last.engine = "elevenlabs" /\ last.raised = "TTSEngineError")
        => elevenlabs._settings = last.before._settings

(* C24: when a run over several files has ended, every one of its files    *)
(* has been processed and reported, whatever failed while processing the   *)
(* others.                                                                 *)
C24_EveryFileIsProcessed ==
    batch.status \in {"returned", "exit(1)"} => Pending(batch) = {}

(* The effect map a call works on, and the stages of a chain whose key is  *)
(* in a map, in the fixed order of the chain.                              *)
EffectiveMap ==
    IF chain.processor = "process_audio" /\ chain.effects = <<>> THEN chain.config
    ELSE chain.effects

StagesPresent(stages, effects) == SelectSeq(stages, LAMBDA stage : HasEffect(effects, stage))

(* C25: a chain runs exactly the stages whose key is in the effect map, in *)
(* the fixed order of the chain, whatever the order of the map.            *)
C25_RunsStagesPresentInFixedOrder ==
    /\ chain.processor = "process_audio"
           => chain.applied = StagesPresent(TimeStages, EffectiveMap)
    /\ chain.processor = "process_spectrum"
           => chain.applied = StagesPresent(SpectralStages, EffectiveMap)

(* C26: when a speak() call has finished, by returning or by raising, the  *)
(* engine is neither speaking nor paused.                                  *)
C26_SpeakEndsInitialized ==
    (\/ last.op = "speak_end"
     \/ last.op = "speak" /\ last.raised # "none"
     \/ last.op = "speak" /\ last.engine = "elevenlabs")
        => /\ last.engine = "pyttsx3" => (~pyttsx3._speaking /\ ~pyttsx3._paused)
           /\ last.engine = "gtts" => (~gtts._speaking /\ ~gtts._paused)
           /\ last.engine = "elevenlabs" => (~elevenlabs._speaking /\ ~elevenlabs._paused)

(* The entries of the index that are not expired, and what a cleanup pass  *)
(* took from them.                                                         *)
Fresh == SelectSeq(cache_index, LAMBDA e : ~Expired(e, now))

SizeVictims == {i \in 1..Len(Fresh) : ~HasKey(cache_index', Fresh[i].key)}

SizeSurvivors == {i \in 1..Len(Fresh) : HasKey(cache_index', Fresh[i].key)}

CleanupPassEnds ==
    last'.op = "_cleanup_loop"
        => /\ \A i \in 1..Len(cache_index) :
                 Expired(cache_index[i], now) => ~HasKey(cache_index', cache_index[i].key)
           /\ IF SumSizes(World, Fresh) > max_size_bytes
              THEN /\ \A v \in SizeVictims, s \in SizeSurvivors :
                         StatSize(World, Fresh[v].key) >= StatSize(World, Fresh[s].key)
                   /\ \A v \in SizeVictims :
                         SumSizes(World, SelectSeq(Fresh, LAMBDA e : HasKey(cache_index', e.key)))
                             + StatSize(World, Fresh[v].key) > max_size_bytes
              ELSE cache_index' = Fresh
           /\ \A i \in 1..Len(cache_index') : ~Expired(cache_index'[i], now')
           /\ _get_cache_size(World)' <= max_size_bytes

(* C27: a pass of the cleanup loop removes every expired entry and then,   *)
(* if the total size is still above max_size_bytes, evicts the largest     *)
(* entries until it is not; when the pass ends no indexed entry is expired *)
(* and the total size is at most max_size_bytes.                           *)
C27_CleanupPassRestoresBounds == [][CleanupPassEnds]_vars

C27_Witness ==
    /\ last.op = "_cleanup_loop"
    /\ now = 0
    /\ Len(last.evicted) = 1
    /\ Len(cache_index) = 1

(* C28: in PyTTSx3Engine no text given to speak() is said more than once,  *)
(* and the thread of _process_queue and the executor threads of speak()    *)
(* are never inside say or runAndWait of the engine at the same time.      *)
C28_EachTextSpokenOnce ==
    /\ pyttsx3.synthesized <= pyttsx3.requested
    /\ ~(pyttsx3.worker = "driving" /\ pyttsx3.executor > 0)

(* The payload files of the cache directory and their bytes *)
PayloadPaths == {p \in Paths : files[p].exists}

RECURSIVE SumBytes(_)
SumBytes(paths) ==
    IF paths = {} THEN 0
    ELSE With(CHOOSE p \in paths : TRUE, LAMBDA p :
              Len(files[p].bytes) + SumBytes(paths \ {p}))

(* C29: every payload file of the cache directory is the payload of an     *)
(* index entry, so the bytes of payload on disk equal total_size_bytes of  *)
(* get_cache_stats() and are at most max_size_bytes.                       *)
C29_NoOrphanPayloads ==
    running
        => /\ \A p \in PayloadPaths :
                 \E i \in 1..Len(cache_index) : _get_cache_path(cache_index[i].key) = p
           /\ SumBytes(PayloadPaths) = TotalSizeBytes
           /\ SumBytes(PayloadPaths) <= max_size_bytes

(* C30: every name that has a memoized engine instance is a registered     *)
(* engine name: the keys of _engines are among those of _engine_classes.   *)
C30_MemoizedNamesAreRegistered ==
    \A name \in FactoryNames :
        factory._engines[name] # NoEngine => factory._engine_classes[name] # NoClass

C30_Witness ==
    /\ last.op = "unregister_engine"
    /\ last.memoized # NoEngine
    /\ factory._engines[last.name] = NoEngine
    /\ \E name \in FactoryNames : factory._engines[name] # NoEngine

====
